---- MODULE Spec2Model ----
(***************************************************************************)
(* Model of the resume.io document pipeline of src/parser/PdfEngine.py     *)
(* (DocumentSpecification, HttpRequestExecutor, DocumentMetadataProcessor, *)
(* ImageToPdfConverter, LinkAnnotationBuilder, PdfDocumentAssembler,       *)
(* DocumentProcessingOrchestrator, DocumentProcessorFacade,                *)
(* ApplicationRunner), of generate_with_progress in src/app.py, of         *)
(* generate_pdf in src/app_deploy.py, of APIConfig.from_env in             *)
(* src/config.py and of the background tasks of src/main_app.py.           *)
(*                                                                         *)
(* Spec is one run through any entry operation, with a progress sink that  *)
(* only records; SpecProgress lets the sink raise, SpecCancel adds a       *)
(* caller's cancellation signal, SpecConcurrent runs two threads on one    *)
(* orchestrator, SpecTasks is the task registry of the UI, and the others  *)
(* call one operation on its own.                                          *)
(*                                                                         *)
(* Python values are modelled as follows.  A dict whose key order does not *)
(* matter is a function on strings (Get is dict.get); a link dict, whose   *)
(* insertion order the code reads, is a sequence of <<key, value>> pairs.  *)
(* A str the code slices is a sequence of one-character strings.  A float  *)
(* is an exact rational [n |-> numerator, d |-> denominator] in lowest     *)
(* terms.  The result of a call is Return(v) or Raise(kind).  A record     *)
(* constructor lists its fields in the order in which their names first    *)
(* occur in this module, which is the order TLC keeps them in.             *)
(***************************************************************************)
EXTENDS Integers, Sequences, FiniteSets, TLC

\* Largest number of pages in a metadata payload / of buffers in a direct
\* assemble_document call.
MaxPages == 2

MinImageResolution == 100
DefaultResolution == 3000
HttpOk == 200
ConfigMinResolution == 100
ConfigMaxResolution == 10000

----------------------------------------------------------------------------
\* Python values

EmptyDict == [k \in {} |-> 0]

Get(d, key, default) == IF key \in DOMAIN d THEN d[key] ELSE default

None == [none |-> TRUE]

Return(v) == [value |-> v]

Raise(kind) == [raised |-> kind]

IsRaise(r) == "raised" \in DOMAIN r

RECURSIVE GCD(_, _)
GCD(a, b) == IF b = 0 THEN a ELSE GCD(b, a % b)

Frac(n, d) == LET g == GCD(n, d) IN [d |-> d \div g, n |-> n \div g]

FracMul(v, s) == Frac(v * s.n, s.d)

FracAdd(a, b) == Frac(a.n * b.d + b.n * a.d, a.d * b.d)

\* ProcessingError and its two subclasses
ProcessingErrorKinds == {"ProcessingError", "NetworkError", "DocumentValidationError"}

----------------------------------------------------------------------------
\* TimestampGenerator

DigitChars == <<"0", "1", "2", "3", "4", "5", "6", "7", "8", "9">>

RECURSIVE Digits(_, _)
Digits(n, width) ==
    IF width = 0 THEN <<>>
    ELSE Digits(n \div 10, width - 1) \o <<DigitChars[(n % 10) + 1]>>

\* datetime.isoformat(): the fraction is printed only when microsecond # 0
IsoFormat(t) ==
    <<"2", "0", "2", "4", "-", "0", "1", "-", "0", "1", "T">>
    \o Digits(t.hour, 2) \o <<":">> \o Digits(t.minute, 2) \o <<":">>
    \o Digits(t.second, 2)
    \o (IF t.microsecond = 0 THEN <<>> ELSE <<".">> \o Digits(t.microsecond, 6))

GetCurrentUtcTimestamp(t) ==
    LET iso == IsoFormat(t) IN SubSeq(iso, 1, Len(iso) - 4) \o <<"Z">>

\* The instants the clock passes through during a run, in order.
Instants ==
    << [hour |-> 12, minute |-> 0, second |-> 5, microsecond |-> 0],
       [hour |-> 12, minute |-> 0, second |-> 5, microsecond |-> 123456],
       [hour |-> 12, minute |-> 0, second |-> 6, microsecond |-> 129999] >>

----------------------------------------------------------------------------
\* DocumentSpecification

Tokens == {"", "tok"}

Formats == {"jpeg", "png"}

Resolutions == {MinImageResolution - 1, MinImageResolution}

PostInit_tokenOnly(spec) ==
    IF spec.access_token = "" THEN Raise("DocumentValidationError")
    ELSE Return(spec)

PostInit(spec) ==
    IF spec.access_token = "" THEN Raise("DocumentValidationError")
    ELSE IF spec.image_resolution < MinImageResolution
         THEN Raise("DocumentValidationError")
         ELSE Return(spec)

DocumentSpecification(token, fmt, resolution, ocr, links) ==
    PostInit([access_token |-> token, image_resolution |-> resolution,
              output_format |-> fmt, enable_ocr |-> ocr,
              preserve_links |-> links])

----------------------------------------------------------------------------
\* UrlBuilder: a URL is the record of the fields its template substitutes

BuildMetadataUrl(token, timestamp) ==
    [token |-> token, endpoint |-> "meta", cache |-> timestamp]

BuildImageUrl(token, page_number, image_format, timestamp, resolution) ==
    [token |-> token, endpoint |-> "to-image", cache |-> timestamp,
     page |-> page_number, format |-> image_format, size |-> resolution]

----------------------------------------------------------------------------
\* HttpRequestExecutor: a response is [exc |-> ...] when requests.get raised,
\* else [status_code |-> ..., content |-> ...]

ExecuteRequest_lenient(response) ==
    IF "exc" \in DOMAIN response THEN Raise("NetworkError")
    ELSE Return(response)

ExecuteRequest_transportRaw(response) ==
    IF "exc" \in DOMAIN response THEN Raise(response.exc)
    ELSE IF response.status_code # HttpOk THEN Raise("NetworkError")
         ELSE Return(response)

ExecuteRequest(response) ==
    IF "exc" \in DOMAIN response THEN Raise("NetworkError")
    ELSE IF response.status_code # HttpOk THEN Raise("NetworkError")
         ELSE Return(response)

\* What the remote service may answer when it does not serve the request: the
\* transport fails, or the status is not 200 and the body is error_body.
FailedResponses(error_body) ==
    {[exc |-> "RequestException"]}
    \cup {[status_code |-> s, content |-> error_body] : s \in {204, 404}}

----------------------------------------------------------------------------
\* Metadata payloads and DocumentMetadataProcessor

LinkCanonical ==
    << <<"url", "u1">>, <<"x", 0>>, <<"y", 0>>, <<"w", 10>>, <<"h", 10>> >>

LinkReordered ==
    << <<"url", "u2">>, <<"w", 3>>, <<"h", 4>>, <<"x", 1>>, <<"y", 2>> >>

LinkZeroArea ==
    << <<"x", 5>>, <<"y", 6>>, <<"w", 0>>, <<"h", 0>>, <<"url", "u3">> >>

LinkNoUrl ==
    << <<"x", 1>>, <<"y", 1>>, <<"w", 1>>, <<"h", 1>> >>

PageA == [links |-> <<LinkCanonical>>, viewport |-> [width |-> 2, height |-> 4]]

PageB == [links |-> <<LinkReordered, LinkZeroArea>>,
          viewport |-> [width |-> 4, height |-> 2]]

PageC == EmptyDict

PageD == [links |-> <<>>, viewport |-> [width |-> 0, height |-> 2]]

PageE == [links |-> <<LinkCanonical, LinkNoUrl>>, viewport |-> [height |-> 3]]

Descriptors == {PageA, PageB, PageC, PageD, PageE}

PageLists == UNION {[1..n -> Descriptors] : n \in 0..MaxPages}

\* response.text: not JSON, a JSON array, or a JSON object with or without "pages"
MetaBodies ==
    {[json |-> "invalid"], [json |-> "array"], [json |-> "object", data |-> EmptyDict]}
    \cup {[json |-> "object", data |-> [pages |-> p]] : p \in PageLists}

MetaResponses ==
    FailedResponses([json |-> "invalid"]) \cup {[status_code |-> HttpOk, content |-> b] : b \in MetaBodies}

ExtractPageInfo_wrongKind(raw_metadata) ==
    IF raw_metadata.json = "invalid" THEN Raise("DocumentValidationError")
    ELSE IF raw_metadata.json # "object" THEN Raise("AttributeError")
    ELSE LET page_data == Get(raw_metadata.data, "pages", <<>>) IN
         IF Len(page_data) = 0 THEN Raise("ProcessingError")
         ELSE Return(page_data)

ExtractPageInfo(raw_metadata) ==
    IF raw_metadata.json = "invalid" THEN Raise("DocumentValidationError")
    ELSE IF raw_metadata.json # "object" THEN Raise("AttributeError")
    ELSE LET page_data == Get(raw_metadata.data, "pages", <<>>) IN
         IF Len(page_data) = 0 THEN Raise("DocumentValidationError")
         ELSE Return(page_data)

----------------------------------------------------------------------------
\* Page images and ImageToPdfConverter.  An image is tagged with the remote
\* page it renders; box is the media box the conversion backend gives its
\* PDF page; an image that is not decodable makes the backend raise.

Boxes == {[width |-> 6, height |-> 8], [width |-> 12, height |-> 6]}

Undecodable(page_number) ==
    [page |-> page_number, box |-> [width |-> 0, height |-> 0], decodable |-> FALSE]

Images(page_number) ==
    {[page |-> page_number, box |-> b, decodable |-> TRUE] : b \in Boxes}
    \cup {Undecodable(page_number)}

ImageResponses(page_number) ==
    FailedResponses(Undecodable(0))
    \cup {[status_code |-> HttpOk, content |-> i] : i \in Images(page_number)}

\* The page records the backend that rendered it.  tesseract says whether the
\* Tesseract program pytesseract runs is installed; without it pytesseract
\* raises, and so does Image.open on an image that is not decodable.
ConvertImageToPdf_alwaysOcr(image_buffer, enable_ocr, tesseract) ==
    IF ~image_buffer.decodable \/ ~tesseract THEN Raise("ProcessingError")
    ELSE Return([image |-> image_buffer, mediabox |-> image_buffer.box,
                 backend |-> "pytesseract", text_layer |-> TRUE])

ConvertImageToPdf(image_buffer, enable_ocr, tesseract) ==
    IF enable_ocr
    THEN IF ~image_buffer.decodable \/ ~tesseract THEN Raise("ProcessingError")
         ELSE Return([image |-> image_buffer, mediabox |-> image_buffer.box,
                      backend |-> "pytesseract", text_layer |-> TRUE])
    ELSE IF ~image_buffer.decodable THEN Raise("ProcessingError")
         ELSE Return([image |-> image_buffer, mediabox |-> image_buffer.box,
                      backend |-> "PIL", text_layer |-> FALSE])

----------------------------------------------------------------------------
\* LinkAnnotationBuilder

HasKey(link_data, key) == \E i \in 1..Len(link_data) : link_data[i][1] = key

Lookup(link_data, key) ==
    link_data[CHOOSE i \in 1..Len(link_data) : link_data[i][1] = key][2]

\* link_data after pop(key): the remaining items in insertion order
Pop(link_data, key) == SelectSeq(link_data, LAMBDA item : item[1] # key)

CreateLinkAnnotation(link_data, scale_factor) ==
    IF ~HasKey(link_data, "url") THEN Raise("KeyError")
    ELSE LET target_url == Lookup(link_data, "url")
             rest == Pop(link_data, "url")
             scaled_coords == [i \in 1..Len(rest) |-> FracMul(rest[i][2], scale_factor)]
         IN  IF Len(rest) # 4 THEN Raise("ValueError")
             ELSE LET x_coord == scaled_coords[1]
                      y_coord == scaled_coords[2]
                      width == scaled_coords[3]
                      height == scaled_coords[4]
                  IN  Return([annotation |->
                                [rect |-> <<x_coord, y_coord,
                                            FracAdd(x_coord, width),
                                            FracAdd(y_coord, height)>>,
                                 url |-> target_url],
                              coordinates |-> <<x_coord, y_coord, width, height>>])

----------------------------------------------------------------------------
\* PdfDocumentAssembler.  The writer is the sequence of its pages, each with
\* the annotations attached to it.

ReferenceViewport(page_metadata) ==
    LET viewport_info == Get(page_metadata[1], "viewport", EmptyDict) IN
    [width |-> Get(viewport_info, "width", 1),
     height |-> Get(viewport_info, "height", 1)]

PageScale_min(mediabox, reference) ==
    IF reference.height = 0 \/ reference.width = 0 THEN Raise("ZeroDivisionError")
    ELSE LET by_height == Frac(mediabox.height, reference.height)
             by_width == Frac(mediabox.width, reference.width)
         IN  Return(IF by_height.n * by_width.d <= by_width.n * by_height.d
                    THEN by_height ELSE by_width)

PageScale(mediabox, reference) ==
    IF reference.height = 0 \/ reference.width = 0 THEN Raise("ZeroDivisionError")
    ELSE LET by_height == Frac(mediabox.height, reference.height)
             by_width == Frac(mediabox.width, reference.width)
         IN  Return(IF by_height.n * by_width.d >= by_width.n * by_height.d
                    THEN by_height ELSE by_width)

AddPage_front(writer, page) == <<[page |-> page, annotations |-> <<>>]>> \o writer

AddPage(writer, page) == Append(writer, [page |-> page, annotations |-> <<>>])

\* page_number is 0-based.  The annotation is kept with the number of pages
\* the writer holds at the time of the call.
AddAnnotation(writer, page_number, annotation) ==
    [writer EXCEPT ![page_number + 1].annotations =
        Append(@, [rect |-> annotation.rect, url |-> annotation.url,
                   pages_in_writer |-> Len(writer)])]

AnnotationTarget_first(page_index) == 0

AnnotationTarget_previous(page_index) == IF page_index = 0 THEN 0 ELSE page_index - 1

AnnotationTarget(page_index) == page_index

\* The dict handed to create_link_annotation: link_info.copy() is a new
\* dict, not the one page_metadata holds.
LinkArgument_same(link_info) == [link_data |-> link_info, shared |-> TRUE]

LinkArgument(link_info) == [link_data |-> link_info, shared |-> FALSE]

\* link_data as create_link_annotation leaves it: pop("url") took the url
\* out, unless it raised KeyError
LinkDataAfter(link_data) ==
    IF HasKey(link_data, "url") THEN Pop(link_data, "url") ELSE link_data

\* page_metadata after the call for link k (1-based) of page page_index: what
\* the callee did to its argument shows in page_metadata only when the
\* argument is the dict of page_metadata itself.
AfterCall(page_metadata, page_index, k, argument) ==
    IF argument.shared
    THEN [page_metadata EXCEPT ![page_index + 1].links[k] = LinkDataAfter(argument.link_data)]
    ELSE page_metadata

\* The loop over page_links from link k + 1 on; an exception leaves the
\* writer as it then is.
RECURSIVE AddLinkAnnotations(_, _, _, _, _)
AddLinkAnnotations(writer, page_metadata, page_index, k, page_scale) ==
    LET page_links == Get(page_metadata[page_index + 1], "links", <<>>) IN
    IF k >= Len(page_links) THEN [page_metadata |-> page_metadata, writer |-> writer]
    ELSE LET argument == LinkArgument(page_links[k + 1])
             link_annotation_data == CreateLinkAnnotation(argument.link_data, page_scale)
             after == AfterCall(page_metadata, page_index, k + 1, argument)
         IN  IF IsRaise(link_annotation_data)
             THEN [raised |-> link_annotation_data.raised, page_metadata |-> after,
                   writer |-> writer]
             ELSE AddLinkAnnotations(
                      AddAnnotation(writer, AnnotationTarget(page_index),
                                    link_annotation_data.value.annotation),
                      after, page_index, k + 1, page_scale)

\* One iteration of the loop over image_buffers (page_index is 0-based).
AssemblePageStep(writer, image_buffer, page_index, page_metadata, reference, enable_ocr, tesseract) ==
    LET pdf_page_data == ConvertImageToPdf(image_buffer, enable_ocr, tesseract) IN
    IF IsRaise(pdf_page_data)
    THEN [raised |-> pdf_page_data.raised, page_metadata |-> page_metadata,
          writer |-> writer]
    ELSE LET current_page == pdf_page_data.value
             page_scale == PageScale(current_page.mediabox, reference)
         IN  IF IsRaise(page_scale)
             THEN [raised |-> page_scale.raised, page_metadata |-> page_metadata,
                   writer |-> writer]
             ELSE IF page_index < Len(page_metadata)
                  THEN AddLinkAnnotations(AddPage(writer, current_page), page_metadata,
                                          page_index, 0, page_scale.value)
                  ELSE [page_metadata |-> page_metadata,
                        writer |-> AddPage(writer, current_page)]

\* The loop over image_buffers from page_index on
RECURSIVE AssembleLoop(_, _, _, _, _, _, _)
AssembleLoop(writer, image_buffers, page_index, page_metadata, reference, enable_ocr, tesseract) ==
    IF page_index >= Len(image_buffers)
    THEN [page_metadata |-> page_metadata, writer |-> writer]
    ELSE LET step == AssemblePageStep(writer, image_buffers[page_index + 1], page_index,
                                      page_metadata, reference, enable_ocr, tesseract)
         IN  IF IsRaise(step) THEN step
             ELSE AssembleLoop(step.writer, image_buffers, page_index + 1,
                               step.page_metadata, reference, enable_ocr, tesseract)

\* assemble_document as a whole: the writer it wrote, or the error raised
AssembleDocument(image_buffers, page_metadata, enable_ocr, tesseract) ==
    IF Len(image_buffers) = 0 \/ Len(page_metadata) = 0
    THEN [raised |-> "DocumentValidationError", page_metadata |-> page_metadata,
          writer |-> <<>>]
    ELSE AssembleLoop(<<>>, image_buffers, 0, page_metadata,
                      ReferenceViewport(page_metadata), enable_ocr, tesseract)

----------------------------------------------------------------------------
\* One run.

VARIABLES
    pc,                   \* idle, timestamp, metadata, pages, assemble,
                          \* assembling, done, failed
    entry,                \* the operation the caller invoked
    args,                 \* its arguments
    spec,                 \* the DocumentSpecification, EmptyDict before
    image_converter,      \* the ImageToPdfConverter in use
    tesseract_installed,  \* whether the host has the Tesseract program
    cancelled_before,     \* k when the caller signalled cancellation before
                          \* the fetch of page k started, 0 while it has not
    now,                  \* the clock: an index into Instants
    processing_timestamp, \* <<>> before it is generated
    timestamp_calls,      \* calls of get_current_utc_timestamp
    requests,             \* [url, response] of every requests.get, in order
    page_info,            \* page_metadata
    page_images,          \* image_buffers
    assemble_calls,       \* calls of assemble_document
    reference,            \* (reference_width, reference_height)
    page_index,           \* next index of the loop over image_buffers
    pdf_writer,           \* PdfWriter
    failed_at,            \* stage that raised, "none" if none did
    raised,               \* error leaving the core, "none" if none
    returned,             \* bytes returned by the core, None before
    outcome,              \* how the entry operation ended
    progress,             \* reports made to progress_cb, in order
    progress_cb,          \* the caller's sink: the call at which it raises,
                          \* 0 when it raises at none
    threads,              \* the runs that share one orchestrator, <<>> if none
    frames,               \* the locals of their calls of process_document
    tasks,                \* st.session_state.tasks of the background-task UI
    task_threads,         \* the threads launch_background_task created
    submissions           \* submissions of the form so far

\* The state of runs that execute concurrently in the process
processVars == <<threads, frames>>

\* The state of the background-task UI
taskVars == <<tasks, task_threads, submissions>>

envVars == <<tesseract_installed, progress_cb, cancelled_before, processVars, taskVars>>

inputVars == <<entry, args, spec, image_converter, envVars>>

fetchVars == <<processing_timestamp, timestamp_calls, requests, page_info, page_images>>

assemblyVars == <<assemble_calls, reference, page_index, pdf_writer>>

resultVars == <<pc, failed_at, raised, returned, outcome, progress>>

vars == <<inputVars, now, fetchVars, assemblyVars, resultVars>>

Pending == [kind |-> "pending"]

BlankRun ==
    /\ cancelled_before = 0
    /\ spec = EmptyDict
    /\ processing_timestamp = <<>>
    /\ timestamp_calls = 0
    /\ requests = <<>>
    /\ assemble_calls = 0
    /\ reference = EmptyDict
    /\ page_index = 0
    /\ pdf_writer = <<>>
    /\ failed_at = "none"
    /\ raised = "none"
    /\ returned = None
    /\ outcome = Pending
    /\ progress = <<>>

NoThreads ==
    /\ threads = <<>>
    /\ frames = <<>>

NoTasks ==
    /\ tasks = EmptyDict
    /\ task_threads = <<>>
    /\ submissions = 0

Blank ==
    /\ BlankRun
    /\ NoThreads
    /\ NoTasks
    /\ progress_cb = 0

Init ==
    /\ Blank
    /\ args = EmptyDict
    /\ entry = "none"
    /\ image_converter = [enable_ocr |-> TRUE]
    /\ tesseract_installed \in BOOLEAN
    /\ pc = "idle"
    /\ now \in 1..Len(Instants)
    /\ page_info = <<>>
    /\ page_images = <<>>

ProcessDocumentExcept_wrapAll(e) == "ProcessingError"

\* The except clause of process_document
ProcessDocumentExcept(e) ==
    IF e \in ProcessingErrorKinds THEN e ELSE "ProcessingError"

\* The except clauses of execute_document_conversion: print, fall off the end
ExecuteDocumentConversionExcept(e) == [value |-> None, kind |-> "returned"]

\* The error that leaves the core when exception e is raised at a stage
CoreRaises(e_entry, stage, e) ==
    IF e_entry \in {"runner", "facade", "api"} /\ stage \notin {"spec", "request"}
    THEN ProcessDocumentExcept(e)
    ELSE e

HttpException(status_code) ==
    [kind |-> "raised", status_code |-> status_code, error |-> "HTTPException"]

\* generate_pdf after execute_document_conversion returned pdf_bytes
GeneratePdfResponse(pdf_bytes) ==
    IF pdf_bytes = None THEN HttpException(500)
    ELSE [value |-> pdf_bytes, kind |-> "returned", status_code |-> 200,
          media_type |-> "application/pdf"]

EntryOutcome(e_entry, e) ==
    IF e_entry = "runner" THEN ExecuteDocumentConversionExcept(e)
    ELSE IF e_entry = "api"
         THEN IF e = "HTTPException" THEN HttpException(400)
              ELSE GeneratePdfResponse(ExecuteDocumentConversionExcept(e).value)
         ELSE [kind |-> "raised", error |-> e]

\* How the entry operation ends when the core returned pdf_document
EntryReturns(e_entry, pdf_document) ==
    IF e_entry = "api" THEN GeneratePdfResponse(pdf_document)
    ELSE [value |-> pdf_document, kind |-> "returned"]

Report(fraction, message) == [fraction |-> fraction, message |-> message]

\* progress_cb is called only by generate_with_progress
Reported(e_entry, reports, fraction, message) ==
    IF e_entry = "progress" THEN Append(reports, Report(fraction, message))
    ELSE reports

\* Whether the call of progress_cb that reports ends with made raised
SinkRaises(e_entry, reports) == e_entry = "progress" /\ Len(reports) = progress_cb

\* An exception e raised at a stage leaves the entry operation.  In
\* generate_with_progress the except clause calls progress_cb(1.0, "Failed")
\* first, and what that call raises leaves instead; the specification is
\* constructed before the try.
Fail(e_entry, stage, e, reports) ==
    LET final == IF stage = "spec" THEN reports
                 ELSE Reported(e_entry, reports, Frac(1, 1), "Failed")
        leaving == IF stage # "spec" /\ SinkRaises(e_entry, final) THEN "CallbackError"
                   ELSE CoreRaises(e_entry, stage, e)
    IN  /\ pc' = "failed"
        /\ failed_at' = stage
        /\ raised' = leaving
        /\ outcome' = EntryOutcome(e_entry, leaving)
        /\ progress' = final
        /\ UNCHANGED returned

Tick ==
    /\ pc \notin {"done", "failed"}
    /\ now < Len(Instants)
    /\ now' = now + 1
    /\ UNCHANGED <<inputVars, fetchVars, assemblyVars, resultVars>>

\* The caller's arguments are in a, the specification is constructed from
\* them, and the converter is the one the entry operation builds.
Begin(e_entry, a, constructed, ocr) ==
    /\ pc = "idle"
    /\ entry' = e_entry
    /\ args' = a
    /\ image_converter' = [enable_ocr |-> ocr]
    /\ UNCHANGED envVars
    /\ IF IsRaise(constructed)
       THEN /\ spec' = spec
            /\ Fail(e_entry,
                    IF constructed.raised = "HTTPException" THEN "request" ELSE "spec",
                    constructed.raised, progress)
       ELSE /\ spec' = constructed.value
            /\ pc' = "timestamp"
            /\ UNCHANGED <<failed_at, raised, returned, outcome, progress>>
    /\ UNCHANGED <<now, fetchVars, assemblyVars>>

\* ApplicationRunner.execute_document_conversion(token)
StartRunner ==
    \E token \in Tokens :
        Begin("runner", [token |-> token],
              DocumentSpecification(token, "jpeg", DefaultResolution, TRUE, TRUE),
              TRUE)

\* DocumentProcessorFacade.convert_remote_document_to_pdf(access_token, output_format, resolution)
StartFacade ==
    \E token \in Tokens, fmt \in Formats, resolution \in Resolutions :
        Begin("facade",
              [access_token |-> token, resolution |-> resolution, output_format |-> fmt],
              DocumentSpecification(token, fmt, resolution, TRUE, TRUE),
              TRUE)

\* generate_with_progress(token, resolution, fmt, enable_ocr, preserve_links, progress_cb)
StartProgress ==
    \E token \in Tokens, fmt \in Formats, resolution \in Resolutions,
       enable_ocr \in BOOLEAN :
        Begin("progress",
              [token |-> token, fmt |-> fmt, resolution |-> resolution,
               enable_ocr |-> enable_ocr, preserve_links |-> TRUE],
              DocumentSpecification(token, fmt, resolution, enable_ocr, TRUE),
              enable_ocr)

SupportedImageFormats == {"jpeg", "png", "webp"}

\* str.strip() of the tokens below
Strip(token) == IF token = " " THEN "" ELSE token

ApiRequests ==
    [token : Tokens \cup {" "}, resolution : Resolutions \cup {ConfigMaxResolution + 1},
     output_format : Formats \cup {"gif"},
     enable_ocr : BOOLEAN, preserve_links : {TRUE}]

\* The checks of generate_pdf and the DocumentSpecification it builds
GeneratePdfChecks(request) ==
    IF Strip(request.token) = "" THEN Raise("HTTPException")
    ELSE IF request.output_format \notin SupportedImageFormats THEN Raise("HTTPException")
    ELSE IF \/ request.resolution < ConfigMinResolution
            \/ request.resolution > ConfigMaxResolution
         THEN Raise("HTTPException")
         ELSE DocumentSpecification(Strip(request.token), request.output_format,
                                    request.resolution, request.enable_ocr,
                                    request.preserve_links)

\* POST /generate-pdf: document_spec is built and left unused; the run is
\* ApplicationRunner().execute_document_conversion(request.token.strip())
StartApi ==
    \E request \in ApiRequests :
        LET document_spec == GeneratePdfChecks(request) IN
        Begin("api", request,
              IF IsRaise(document_spec) THEN document_spec
              ELSE DocumentSpecification(Strip(request.token), "jpeg",
                                         DefaultResolution, TRUE, TRUE),
              TRUE)

GenerateTimestamp ==
    /\ pc = "timestamp"
    /\ LET reports == Reported(entry, progress, Frac(1, 100), "Fetching metadata") IN
       IF SinkRaises(entry, reports)
       THEN /\ Fail(entry, "callback", "CallbackError", reports)
            /\ UNCHANGED <<processing_timestamp, timestamp_calls>>
       ELSE /\ progress' = reports
            /\ processing_timestamp' = GetCurrentUtcTimestamp(Instants[now])
            /\ timestamp_calls' = timestamp_calls + 1
            /\ pc' = "metadata"
            /\ UNCHANGED <<failed_at, raised, returned, outcome>>
    /\ UNCHANGED <<inputVars, now, requests, page_info, page_images, assemblyVars>>

\* Where the run stands once `fetched` of the total_pages images are in
\* page_images: the loop over range(1, total_pages + 1) goes on, or is over.
NextFetchPhase_short(fetched, total_pages) ==
    IF fetched >= total_pages - 1 THEN "assemble" ELSE "pages"

NextFetchPhase(fetched, total_pages) ==
    IF fetched >= total_pages THEN "assemble" ELSE "pages"

MetadataRequestUrl(specification, timestamp) ==
    BuildMetadataUrl(specification.access_token, timestamp)

\* fetch_document_metadata, then extract_page_info
FetchMetadata ==
    /\ pc = "metadata"
    /\ \E response \in MetaResponses :
        LET fetched == ExecuteRequest(response) IN
        /\ requests' = Append(requests,
                              [response |-> response,
                               url |-> MetadataRequestUrl(spec, processing_timestamp)])
        /\ IF IsRaise(fetched)
           THEN /\ Fail(entry, "metadata", fetched.raised, progress)
                /\ UNCHANGED page_info
           ELSE LET extracted == ExtractPageInfo(fetched.value.content) IN
                IF IsRaise(extracted)
                THEN /\ Fail(entry, "extract", extracted.raised, progress)
                     /\ UNCHANGED page_info
                ELSE /\ page_info' = extracted.value
                     /\ pc' = NextFetchPhase(0, Len(extracted.value))
                     /\ UNCHANGED <<failed_at, raised, returned, outcome, progress>>
    /\ UNCHANGED <<inputVars, now, processing_timestamp, timestamp_calls, page_images,
                   assemblyVars>>

ImageRequestUrl_fresh(specification, page_num, timestamp) ==
    BuildImageUrl(specification.access_token, page_num, specification.output_format,
                  GetCurrentUtcTimestamp(Instants[now]), specification.image_resolution)

ImageRequestUrl_zeroBased(specification, page_num, timestamp) ==
    BuildImageUrl(specification.access_token, page_num - 1, specification.output_format,
                  timestamp, specification.image_resolution)

ImageRequestUrl(specification, page_num, timestamp) ==
    BuildImageUrl(specification.access_token, page_num, specification.output_format,
                  timestamp, specification.image_resolution)

\* 0.05 + 0.80 * ((idx - 1) / total_pages)
FetchFraction(idx, total_pages) == Frac(5 * total_pages + 80 * (idx - 1), 100 * total_pages)

\* One iteration of the loop over range(1, total_pages + 1)
FetchPageImage ==
    /\ pc = "pages"
    /\ LET page_number == Len(page_images) + 1
           total_pages == Len(page_info)
           reports == Reported(entry, progress, FetchFraction(page_number, total_pages),
                               "Fetching page")
       IN  IF SinkRaises(entry, reports)
           THEN /\ Fail(entry, "callback", "CallbackError", reports)
                /\ UNCHANGED <<requests, page_images>>
           ELSE \E response \in ImageResponses(page_number) :
                LET fetched == ExecuteRequest(response) IN
                /\ requests' = Append(requests,
                                      [response |-> response,
                                       url |-> ImageRequestUrl(spec, page_number,
                                                               processing_timestamp)])
                /\ IF IsRaise(fetched)
                   THEN /\ Fail(entry, "pages", fetched.raised, reports)
                        /\ UNCHANGED page_images
                   ELSE /\ page_images' = Append(page_images, fetched.value.content)
                        /\ pc' = NextFetchPhase(page_number, total_pages)
                        /\ progress' = reports
                        /\ UNCHANGED <<failed_at, raised, returned, outcome>>
    /\ UNCHANGED <<inputVars, now, processing_timestamp, timestamp_calls, page_info,
                   assemblyVars>>

\* assemble_document up to its loop
BeginAssemble ==
    /\ pc = "assemble"
    /\ LET reports == Reported(entry, progress, Frac(90, 100), "Assembling PDF") IN
       IF SinkRaises(entry, reports)
       THEN /\ Fail(entry, "callback", "CallbackError", reports)
            /\ UNCHANGED assemblyVars
       ELSE /\ assemble_calls' = assemble_calls + 1
            /\ pdf_writer' = <<>>
            /\ page_index' = 0
            /\ IF Len(page_images) = 0 \/ Len(page_info) = 0
               THEN /\ Fail(entry, "assemble", "DocumentValidationError", reports)
                    /\ UNCHANGED reference
               ELSE /\ reference' = ReferenceViewport(page_info)
                    /\ pc' = "assembling"
                    /\ progress' = reports
                    /\ UNCHANGED <<failed_at, raised, returned, outcome>>
    /\ UNCHANGED <<inputVars, now, fetchVars>>

\* One iteration of the loop over image_buffers
AssemblePage ==
    /\ pc = "assembling"
    /\ page_index < Len(page_images)
    /\ LET step == AssemblePageStep(pdf_writer, page_images[page_index + 1], page_index,
                                    page_info, reference, image_converter.enable_ocr,
                                    tesseract_installed)
       IN  /\ pdf_writer' = step.writer
           /\ page_info' = step.page_metadata
           /\ IF IsRaise(step)
              THEN /\ Fail(entry, "assemble", step.raised, progress)
                   /\ UNCHANGED page_index
              ELSE /\ page_index' = page_index + 1
                   /\ UNCHANGED resultVars
    /\ UNCHANGED <<inputVars, now, processing_timestamp, timestamp_calls, requests,
                   page_images, assemble_calls, reference>>

\* pdf_writer.write, and the return through the callers
FinishAssemble ==
    /\ pc = "assembling"
    /\ page_index = Len(page_images)
    /\ LET reports == Reported(entry, progress, Frac(1, 1), "Done") IN
       IF SinkRaises(entry, reports)
       THEN Fail(entry, "callback", "CallbackError", reports)
       ELSE /\ returned' = [pages |-> pdf_writer]
            /\ outcome' = EntryReturns(entry, [pages |-> pdf_writer])
            /\ progress' = reports
            /\ pc' = "done"
            /\ UNCHANGED <<failed_at, raised>>
    /\ UNCHANGED <<inputVars, now, fetchVars, assemblyVars>>

Next ==
    \/ Tick
    \/ StartRunner
    \/ StartFacade
    \/ StartProgress
    \/ StartApi
    \/ GenerateTimestamp
    \/ FetchMetadata
    \/ FetchPageImage
    \/ BeginAssemble
    \/ AssemblePage
    \/ FinishAssemble

Spec == Init /\ [][Next]_vars

----------------------------------------------------------------------------
\* Runs whose caller passes generate_with_progress a sink that may raise

SinkCalls == 0..(MaxPages + 4)

InitProgress ==
    /\ BlankRun
    /\ NoThreads
    /\ NoTasks
    /\ progress_cb \in SinkCalls
    /\ args = EmptyDict
    /\ entry = "none"
    /\ image_converter = [enable_ocr |-> TRUE]
    /\ tesseract_installed \in BOOLEAN
    /\ pc = "idle"
    /\ now \in 1..Len(Instants)
    /\ page_info = <<>>
    /\ page_images = <<>>

SpecProgress == InitProgress /\ [][Next]_vars

----------------------------------------------------------------------------
\* A run whose caller may signal cancellation, once, while the run is before
\* a page fetch.  No operation of the run takes or reads such a signal.

Cancel ==
    /\ pc \in {"timestamp", "metadata", "pages"}
    /\ cancelled_before = 0
    /\ cancelled_before' = Len(page_images) + 1
    /\ UNCHANGED <<entry, args, spec, image_converter, tesseract_installed, progress_cb,
                   processVars, taskVars, now, fetchVars, assemblyVars, resultVars>>

NextCancel ==
    \/ Next
    \/ Cancel

SpecCancel == Init /\ [][NextCancel]_vars

----------------------------------------------------------------------------
\* assemble_document called on its own, with any two lists

ImageLists ==
    UNION {{b \in [1..n -> UNION {Images(k) : k \in 1..n}] :
               \A k \in 1..n : b[k] \in Images(k)} : n \in 0..MaxPages}

InitAssemble ==
    /\ Blank
    /\ entry = "assembler"
    /\ image_converter \in {[enable_ocr |-> b] : b \in BOOLEAN}
    /\ tesseract_installed \in BOOLEAN
    /\ pc = "assemble"
    /\ now = 1
    /\ page_info \in PageLists
    /\ page_images \in ImageLists
    /\ args = [page_metadata |-> page_info, image_buffers |-> page_images]

NextAssemble ==
    \/ BeginAssemble
    \/ AssemblePage
    \/ FinishAssemble

SpecAssemble == InitAssemble /\ [][NextAssemble]_vars

----------------------------------------------------------------------------
\* create_link_annotation called on its own: a link with the fields url, x,
\* y, w, h in any order, and a scale factor

LinkKeys == <<"url", "x", "y", "w", "h">>

Rectangles == {<<"u1", 0, 0, 10, 10>>, <<"u2", 1, 2, 3, 4>>, <<"u3", 5, 6, 0, 0>>}

Orders == {o \in [1..5 -> 1..5] : \A i, j \in 1..5 : o[i] = o[j] => i = j}

LinkDicts == {[i \in 1..5 |-> <<LinkKeys[o[i]], r[o[i]]>>] : o \in Orders, r \in Rectangles}

ScaleFactors == {Frac(2, 1), Frac(3, 2)}

InitLink ==
    /\ Blank
    /\ args = EmptyDict
    /\ entry = "link_builder"
    /\ image_converter = [enable_ocr |-> TRUE]
    /\ tesseract_installed = TRUE
    /\ pc = "idle"
    /\ now = 1
    /\ page_info = <<>>
    /\ page_images = <<>>

CallCreateLinkAnnotation ==
    /\ pc = "idle"
    /\ entry = "link_builder"
    /\ \E link_data \in LinkDicts, scale_factor \in ScaleFactors :
        /\ args' = [link_data |-> link_data, scale_factor |-> scale_factor]
        /\ returned' = CreateLinkAnnotation(link_data, scale_factor).value
    /\ pc' = "done"
    /\ UNCHANGED <<entry, spec, image_converter, envVars, now, fetchVars, assemblyVars,
                   failed_at, raised, outcome, progress>>

SpecLink == InitLink /\ [][CallCreateLinkAnnotation]_vars

----------------------------------------------------------------------------
\* get_current_utc_timestamp called on its own, at any of the clock values

ClockValues ==
    [hour : {0, 12, 23}, minute : {0, 59}, second : {0, 5, 59},
     microsecond : {0, 1, 999, 1000, 123456, 999999}]

InitTimestamp ==
    /\ Blank
    /\ args = EmptyDict
    /\ entry = "timestamp_generator"
    /\ image_converter = [enable_ocr |-> TRUE]
    /\ tesseract_installed = TRUE
    /\ pc = "idle"
    /\ now = 1
    /\ page_info = <<>>
    /\ page_images = <<>>

CallGetCurrentUtcTimestamp ==
    /\ pc = "idle"
    /\ entry = "timestamp_generator"
    /\ \E utcnow \in ClockValues :
        /\ args' = [utcnow |-> utcnow]
        /\ processing_timestamp' = GetCurrentUtcTimestamp(utcnow)
    /\ timestamp_calls' = timestamp_calls + 1
    /\ pc' = "done"
    /\ UNCHANGED <<entry, spec, image_converter, envVars, now, requests, page_info,
                   page_images, assemblyVars, failed_at, raised, returned, outcome,
                   progress>>

SpecTimestamp == InitTimestamp /\ [][CallGetCurrentUtcTimestamp]_vars

----------------------------------------------------------------------------
\* APIConfig.from_env, and the port app_deploy.py reads, under any environment
\* that sets PORT, API_PORT, both or neither

\* int(s) of a string of decimal digits
RECURSIVE ParseInt(_)
ParseInt(s) ==
    IF Len(s) = 0 THEN 0
    ELSE 10 * ParseInt(SubSeq(s, 1, Len(s) - 1))
         + (CHOOSE d \in 0..9 : DigitChars[d + 1] = s[Len(s)])

PortStrings ==
    { <<"8", "0">>, <<"3", "0", "0", "0">>, <<"3", "0", "0", "1">>, <<"4", "0", "0", "0">>,
      <<"5", "0", "0", "0">>, <<"6", "0", "0", "0">>, <<"8", "0", "0", "0">>,
      <<"8", "0", "8", "0">>, <<"8", "4", "4", "3">>, <<"6", "5", "5", "3", "5">> }

Environments == UNION {[names -> PortStrings] : names \in SUBSET {"PORT", "API_PORT"}}

\* port=int(os.getenv("API_PORT", "8000"))
FromEnv(environ) ==
    [port |-> ParseInt(Get(environ, "API_PORT", <<"8", "0", "0", "0">>))]

\* port = int(os.environ.get("PORT", 8080)) of app_deploy.py
DeployPort(environ) ==
    IF "PORT" \in DOMAIN environ THEN ParseInt(environ["PORT"]) ELSE 8080

InitPort ==
    /\ Blank
    /\ args = EmptyDict
    /\ entry = "from_env"
    /\ image_converter = [enable_ocr |-> TRUE]
    /\ tesseract_installed = TRUE
    /\ pc = "idle"
    /\ now = 1
    /\ page_info = <<>>
    /\ page_images = <<>>

CallFromEnv ==
    /\ pc = "idle"
    /\ entry = "from_env"
    /\ \E environ \in Environments :
        /\ args' = environ
        /\ returned' = [config |-> FromEnv(environ), deploy_port |-> DeployPort(environ)]
    /\ pc' = "done"
    /\ UNCHANGED <<entry, spec, image_converter, envVars, now, fetchVars, assemblyVars,
                   failed_at, raised, outcome, progress>>

SpecPort == InitPort /\ [][CallFromEnv]_vars

----------------------------------------------------------------------------
\* Several runs of process_document on the one DocumentProcessingOrchestrator
\* of the ApplicationRunner that get_runner caches.  threads[r] is the thread
\* of run r: its position, its specification, the timestamp it generated,
\* what it requested and received, and how it ended.  frames[Frame(r)] holds
\* the locals of its call of process_document.

Runs == {1, 2}

RunTokens == <<"tok", "tok2">>

\* processing_timestamp, page_info and page_images are locals of the call;
\* nothing of a run is kept on self
Frame_instance(r) == 0

Frame(r) == r

RunPageLists == {<<PageA>>, <<PageB, PageA>>}

RunMetaResponses ==
    FailedResponses([json |-> "invalid"])
    \cup {[status_code |-> HttpOk, content |-> [json |-> "object", data |-> [pages |-> p]]] :
             p \in RunPageLists}

InitConcurrent ==
    /\ BlankRun
    /\ args = EmptyDict
    /\ entry = "orchestrator"
    /\ progress_cb = 0
    /\ NoTasks
    /\ image_converter = [enable_ocr |-> TRUE]
    /\ tesseract_installed \in BOOLEAN
    /\ pc = "idle"
    /\ now = 1
    /\ page_info = <<>>
    /\ page_images = <<>>
    /\ threads = [r \in Runs |->
                    [pc |-> "timestamp",
                     requests |-> <<>>,
                     outcome |-> Pending,
                     specification |-> DocumentSpecification(RunTokens[r], "jpeg",
                                                             DefaultResolution, TRUE,
                                                             TRUE).value,
                     stamp |-> <<>>]]
    /\ frames = [f \in {Frame(r) : r \in Runs} |->
                   [processing_timestamp |-> <<>>, page_info |-> <<>>,
                    page_images |-> <<>>]]

\* The rest of the state belongs to the single run and stays as it is
RunStep == UNCHANGED <<entry, args, spec, image_converter, tesseract_installed,
                       progress_cb, cancelled_before, taskVars, now, fetchVars,
                       assemblyVars, resultVars>>

RunRaises(r, e, request) ==
    threads' = [threads EXCEPT ![r].pc = "failed",
                               ![r].requests = @ \o request,
                               ![r].outcome = [kind |-> "raised",
                                               error |-> ProcessDocumentExcept(e)]]

RunTimestamp(r) ==
    /\ threads[r].pc = "timestamp"
    /\ frames' = [frames EXCEPT ![Frame(r)].processing_timestamp =
                                    GetCurrentUtcTimestamp(Instants[now])]
    /\ threads' = [threads EXCEPT ![r].pc = "metadata",
                                  ![r].stamp = GetCurrentUtcTimestamp(Instants[now])]
    /\ RunStep

RunFetchMetadata(r) ==
    /\ threads[r].pc = "metadata"
    /\ \E response \in RunMetaResponses :
        LET fetched == ExecuteRequest(response)
            request == [response |-> response,
                        url |-> MetadataRequestUrl(threads[r].specification,
                                                   frames[Frame(r)].processing_timestamp)]
        IN  IF IsRaise(fetched)
            THEN /\ RunRaises(r, fetched.raised, <<request>>)
                 /\ UNCHANGED frames
            ELSE LET extracted == ExtractPageInfo(fetched.value.content) IN
                 IF IsRaise(extracted)
                 THEN /\ RunRaises(r, extracted.raised, <<request>>)
                      /\ UNCHANGED frames
                 ELSE /\ frames' = [frames EXCEPT ![Frame(r)].page_info = extracted.value,
                                                  ![Frame(r)].page_images = <<>>]
                      /\ threads' = [threads EXCEPT
                                        ![r].pc = NextFetchPhase(0, Len(extracted.value)),
                                        ![r].requests = Append(@, request)]
    /\ RunStep

RunFetchPageImage(r) ==
    /\ threads[r].pc = "pages"
    /\ LET frame == frames[Frame(r)]
           page_number == Len(frame.page_images) + 1
       IN  \E response \in ImageResponses(page_number) :
            LET fetched == ExecuteRequest(response)
                request == [response |-> response,
                            url |-> ImageRequestUrl(threads[r].specification, page_number,
                                                    frame.processing_timestamp)]
            IN  IF IsRaise(fetched)
                THEN /\ RunRaises(r, fetched.raised, <<request>>)
                     /\ UNCHANGED frames
                ELSE /\ frames' = [frames EXCEPT ![Frame(r)].page_images =
                                                    Append(@, fetched.value.content)]
                     /\ threads' = [threads EXCEPT
                                       ![r].pc = NextFetchPhase(page_number,
                                                                Len(frame.page_info)),
                                       ![r].requests = Append(@, request)]
    /\ RunStep

RunAssemble(r) ==
    /\ threads[r].pc = "assemble"
    /\ LET frame == frames[Frame(r)]
           assembled == AssembleDocument(frame.page_images, frame.page_info,
                                         image_converter.enable_ocr, tesseract_installed)
       IN  IF IsRaise(assembled)
           THEN RunRaises(r, assembled.raised, <<>>)
           ELSE threads' = [threads EXCEPT
                              ![r].pc = "done",
                              ![r].outcome = [value |-> [pages |-> assembled.writer],
                                              kind |-> "returned"]]
    /\ UNCHANGED frames
    /\ RunStep

NextConcurrent ==
    \/ Tick
    \/ \E r \in Runs : RunTimestamp(r)
    \/ \E r \in Runs : RunFetchMetadata(r)
    \/ \E r \in Runs : RunFetchPageImage(r)
    \/ \E r \in Runs : RunAssemble(r)

SpecConcurrent == InitConcurrent /\ [][NextConcurrent]_vars

\* The loop over range(1, total_pages + 1) on the responses its requests
\* receive: the buffers, or the first error
RECURSIVE FetchPageImages(_, _, _)
FetchPageImages(responses, buffers, total_pages) ==
    IF Len(buffers) >= total_pages THEN Return(buffers)
    ELSE LET image_data == ExecuteRequest(responses[Len(buffers) + 2]) IN
         IF IsRaise(image_data) THEN image_data
         ELSE FetchPageImages(responses, Append(buffers, image_data.value.content),
                              total_pages)

\* process_document as a function of the responses its requests receive, in
\* order: the error it raises or the document it returns
ProcessDocument(responses, enable_ocr, tesseract) ==
    LET raw_metadata == ExecuteRequest(responses[1]) IN
    IF IsRaise(raw_metadata) THEN Raise(ProcessDocumentExcept(raw_metadata.raised))
    ELSE LET extracted == ExtractPageInfo(raw_metadata.value.content) IN
         IF IsRaise(extracted) THEN Raise(ProcessDocumentExcept(extracted.raised))
         ELSE LET buffers == FetchPageImages(responses, <<>>, Len(extracted.value)) IN
              IF IsRaise(buffers) THEN Raise(ProcessDocumentExcept(buffers.raised))
              ELSE LET pdf_document == AssembleDocument(buffers.value, extracted.value,
                                                        enable_ocr, tesseract)
                   IN  IF IsRaise(pdf_document)
                       THEN Raise(ProcessDocumentExcept(pdf_document.raised))
                       ELSE Return([pages |-> pdf_document.writer])

----------------------------------------------------------------------------
\* The background-task UI of main_app.py, one session.  tasks maps a task key
\* to its entry, a dict with status and start, and bytes or error once its
\* thread has written; start is the number of the launch, which stands for
\* time.time() and tells the entries of successive launches apart.
\* task_threads[i] is the thread of launch i: created, running once started,
\* finished once _target has returned.  The script of a session runs one
\* submission at a time.

TaskKeys == {"k1", "k2"}

MaxSubmissions == 4

\* What cached_generate_pdf gives the thread: non-empty bytes, or an error
TaskResults == {Return("pdf"), Raise("ProcessingError")}

InitTasks ==
    /\ BlankRun
    /\ NoThreads
    /\ NoTasks
    /\ progress_cb = 0
    /\ args = EmptyDict
    /\ entry = "ui"
    /\ image_converter = [enable_ocr |-> TRUE]
    /\ tesseract_installed = TRUE
    /\ pc = "idle"
    /\ now = 1
    /\ page_info = <<>>
    /\ page_images = <<>>

\* The rest of the state is not the UI's
TaskStep == UNCHANGED <<entry, args, spec, image_converter, tesseract_installed,
                        progress_cb, cancelled_before, processVars, now, fetchVars,
                        assemblyVars, resultVars>>

\* if task_key in tasks and tasks[task_key]['status'] in ("running", "done")
AlreadyStarted_never(task_key) == FALSE

AlreadyStarted(task_key) ==
    /\ task_key \in DOMAIN tasks
    /\ tasks[task_key].status \in {"running", "done"}

\* launch_background_task up to the creation of the thread
Launch(key) ==
    /\ tasks' = [k \in DOMAIN tasks \cup {key} |->
                    IF k = key THEN [status |-> "running", start |-> Len(task_threads) + 1]
                    ELSE tasks[k]]
    /\ task_threads' = Append(task_threads, [key |-> key, state |-> "created"])

\* if submitted, with a token that is not blank
Submit ==
    /\ submissions < MaxSubmissions
    /\ \A i \in 1..Len(task_threads) : task_threads[i].state # "created"
    /\ submissions' = submissions + 1
    /\ \E task_key \in TaskKeys :
        IF AlreadyStarted(task_key)
        THEN UNCHANGED <<tasks, task_threads>>
        ELSE Launch(task_key)
    /\ TaskStep

\* thread.start()
StartThread ==
    /\ \E i \in 1..Len(task_threads) :
        /\ task_threads[i].state = "created"
        /\ task_threads' = [task_threads EXCEPT ![i].state = "running"]
    /\ UNCHANGED <<tasks, submissions>>
    /\ TaskStep

\* tasks[key].update(...) of _target: the dict now under the key gets the
\* items, the others stay
TaskUpdate(key, result) ==
    LET task_info == tasks[key] IN
    IF IsRaise(result)
    THEN [tasks EXCEPT ![key] = [error |-> result.raised, status |-> "error",
                                 start |-> task_info.start]]
    ELSE [tasks EXCEPT ![key] = [status |-> "done", start |-> task_info.start,
                                 bytes |-> result.value]]

\* _target: func returns or raises, and the outcome is stored
FinishThread ==
    /\ \E i \in 1..Len(task_threads), result \in TaskResults :
        /\ task_threads[i].state = "running"
        /\ task_threads' = [task_threads EXCEPT ![i].state = "finished"]
        /\ tasks' = TaskUpdate(task_threads[i].key, result)
    /\ UNCHANGED submissions
    /\ TaskStep

NextTasks ==
    \/ Submit
    \/ StartThread
    \/ FinishThread

SpecTasks == InitTasks /\ [][NextTasks]_vars

----------------------------------------------------------------------------
\* Properties

Terminal == pc \in {"done", "failed"}

ImageRequests == {j \in 1..Len(requests) : requests[j].url.endpoint = "to-image"}

\* The pages array of the metadata payload the run received
PayloadPages == Get(requests[1].response.content.data, "pages", <<>>)

Non2xx(response) ==
    /\ "status_code" \in DOMAIN response
    /\ response.status_code \notin 200..299

LinksOf(descriptor) == Get(descriptor, "links", <<>>)

C2_NoFailureSwallowed ==
    (entry = "runner" /\ failed_at # "none") => outcome.kind = "raised"

\* C3: once the image request of some page got a non-2xx response, the run
\* has failed with NetworkError, assemble_document was never invoked and no
\* document is returned.
C3_FailedImageFetchAbortsRun ==
    \A j \in ImageRequests :
        Non2xx(requests[j].response) =>
            /\ pc = "failed"
            /\ raised = "NetworkError"
            /\ assemble_calls = 0
            /\ pdf_writer = <<>>
            /\ returned = None
            /\ outcome.kind = "returned" => outcome.value = None

C3_Witness ==
    /\ pc = "failed"
    /\ \E j \in ImageRequests :
        /\ requests[j].url.page = 2
        /\ Non2xx(requests[j].response)

\* C4: when the metadata payload has an empty or absent pages list, the run
\* has failed with DocumentValidationError and has issued no page-image
\* request.
C4_EmptyMetadataFailsBeforeFetch ==
    ( /\ Len(requests) >= 1
      /\ "status_code" \in DOMAIN requests[1].response
      /\ requests[1].response.status_code = HttpOk
      /\ requests[1].response.content.json = "object"
      /\ Len(PayloadPages) = 0 ) =>
        /\ pc = "failed"
        /\ raised = "DocumentValidationError"
        /\ ImageRequests = {}

C4_Witness ==
    /\ pc = "failed"
    /\ Len(requests) = 1
    /\ requests[1].response = [status_code |-> HttpOk,
                               content |-> [json |-> "object",
                                            data |-> [pages |-> <<>>]]]

\* Inputs of assemble_document with which no conversion, scale or link can fail
WellFormedInputs ==
    /\ \A i \in 1..Len(page_images) : page_images[i].decodable
    /\ ReferenceViewport(page_info).width > 0
    /\ ReferenceViewport(page_info).height > 0
    /\ \A i \in 1..Len(page_info) :
        \A k \in 1..Len(LinksOf(page_info[i])) : HasKey(LinksOf(page_info[i])[k], "url")

\* C5: assemble_document called with two non-empty lists of different
\* lengths (here of decodable images and well-formed descriptors, so that
\* nothing else fails) ends by failing with DocumentValidationError, having
\* converted and appended no page and returning no bytes.
C5_MismatchedLengthsRejected ==
    ( /\ entry = "assembler"
      /\ Len(page_images) # Len(page_info)
      /\ Len(page_images) >= 1
      /\ Len(page_info) >= 1
      /\ WellFormedInputs
      /\ Terminal ) =>
        /\ pc = "failed"
        /\ raised = "DocumentValidationError"
        /\ returned = None
        /\ pdf_writer = <<>>

\* c = v * max(H / Href, W / Wref), by cross-multiplication
ScaledByMax(c, v, box, ref) ==
    IF box.height * ref.width >= box.width * ref.height
    THEN c.n * ref.height = c.d * v * box.height
    ELSE c.n * ref.width = c.d * v * box.width

\* The viewport of page descriptor 0; a missing dimension counts as 1
FirstViewport ==
    LET v == Get(page_info[1], "viewport", EmptyDict) IN
    [width |-> Get(v, "width", 1), height |-> Get(v, "height", 1)]

\* The values of a link other than its url, in the order the payload lists them
Values(link) == LET rest == Pop(link, "url") IN [k \in 1..Len(rest) |-> rest[k][2]]

\* C6: in an assembled document, the rectangle of every annotation of page i
\* is the values of its link scaled by max(H_i / Href, W_i / Wref), with
\* (W_i, H_i) the media box of page i and (Wref, Href) the viewport of the
\* first page descriptor.
C6_ScaleFromFirstViewport ==
    pc = "done" =>
        \A i \in 1..Len(returned.pages) :
            \A k \in 1..Len(returned.pages[i].annotations) :
                LET rect == returned.pages[i].annotations[k].rect
                    v == Values(LinksOf(page_info[i])[k])
                    box == returned.pages[i].page.mediabox
                IN  /\ ScaledByMax(rect[1], v[1], box, FirstViewport)
                    /\ ScaledByMax(rect[2], v[2], box, FirstViewport)
                    /\ ScaledByMax(rect[3], v[1] + v[3], box, FirstViewport)
                    /\ ScaledByMax(rect[4], v[2] + v[4], box, FirstViewport)

C6_Witness ==
    /\ pc = "done"
    /\ page_info = <<PageA, PageB>>
    /\ Len(returned.pages) = 2
    /\ returned.pages[1].page.mediabox # returned.pages[2].page.mediabox
    /\ Len(returned.pages[2].annotations) = 2

\* C7: create_link_annotation maps a link with the fields url, x, y, w, h, in
\* whatever order they are listed, and scale s to the rectangle
\* (x*s, y*s, x*s + w*s, y*s + h*s) with the link's url.
C7_RectangleFromNamedFields ==
    (entry = "link_builder" /\ pc = "done") =>
        LET link == args.link_data
            s == args.scale_factor
            x == FracMul(Lookup(link, "x"), s)
            y == FracMul(Lookup(link, "y"), s)
            w == FracMul(Lookup(link, "w"), s)
            h == FracMul(Lookup(link, "h"), s)
        IN  /\ returned.annotation.rect = <<x, y, FracAdd(x, w), FracAdd(y, h)>>
            /\ returned.annotation.url = Lookup(link, "url")

\* C8: in an assembled document the annotations of page i are those of the
\* links of page descriptor i, one per link and in their order; a page
\* without links has no annotation.
C8_AnnotationsPerPage ==
    pc = "done" =>
        \A i \in 1..Len(returned.pages) :
            LET links == LinksOf(page_info[i])
                annotations == returned.pages[i].annotations
            IN  /\ Len(annotations) = Len(links)
                /\ \A k \in 1..Len(links) : annotations[k].url = Lookup(links[k], "url")

C8_Witness ==
    /\ pc = "done"
    /\ Len(returned.pages) = 2
    /\ LinksOf(page_info[1]) = <<>>
    /\ Len(returned.pages[1].annotations) = 0
    /\ Len(returned.pages[2].annotations) = 2

\* C9: within a run the timestamp is generated at most once, and the cache
\* parameter of every request of the run is that one value.
C9_OneTimestampPerRun ==
    /\ timestamp_calls <= 1
    /\ \A j \in 1..Len(requests) :
        /\ timestamp_calls = 1
        /\ requests[j].url.cache = processing_timestamp
        /\ requests[j].url.cache = requests[1].url.cache

C9_Witness ==
    /\ pc = "done"
    /\ Len(requests) = 3
    /\ GetCurrentUtcTimestamp(Instants[now]) # processing_timestamp

\* C10: in a run started with an empty access token or an image resolution
\* below 100, the construction of the DocumentSpecification has failed with
\* DocumentValidationError and no request has been issued.
C10_InvalidSpecificationNoRequest ==
    ( /\ entry \in {"runner", "facade", "progress"}
      /\ \/ Get(args, "token", Get(args, "access_token", "")) = ""
         \/ Get(args, "resolution", DefaultResolution) < 100 ) =>
        /\ spec = EmptyDict
        /\ failed_at = "spec"
        /\ raised = "DocumentValidationError"
        /\ timestamp_calls = 0
        /\ requests = <<>>

C10_Witness ==
    /\ entry = "facade"
    /\ args.access_token = "tok"
    /\ args.resolution = 99
    /\ pc = "failed"

\* The phases of the state machine: Idle, FetchingMetadata, FetchingPages,
\* Assembling, and the two final ones
Phase ==
    CASE pc = "idle" -> "Idle"
      [] pc \in {"timestamp", "metadata"} -> "FetchingMetadata"
      [] pc = "pages" -> "FetchingPages"
      [] pc \in {"assemble", "assembling"} -> "Assembling"
      [] pc = "done" -> "Done"
      [] pc = "failed" -> "Failed"

PhaseRank(phase) ==
    CASE phase = "Idle" -> 0
      [] phase = "FetchingMetadata" -> 1
      [] phase = "FetchingPages" -> 2
      [] phase = "Assembling" -> 3
      [] phase \in {"Done", "Failed"} -> 4

C11_PhaseInvariant ==
    /\ Phase \in {"Idle", "FetchingMetadata"} =>
           /\ ImageRequests = {}
           /\ page_info = <<>>
           /\ assemble_calls = 0
    /\ Phase = "FetchingPages" =>
           /\ Len(page_info) >= 1
           /\ Len(page_images) < Len(page_info)
           /\ assemble_calls = 0
    /\ Phase \in {"Assembling", "Done"} =>
           /\ Len(page_info) >= 1
           /\ Len(page_images) = Len(page_info)
           /\ Cardinality(ImageRequests) = Len(page_info)
           /\ \A j \in ImageRequests :
               /\ "status_code" \in DOMAIN requests[j].response
               /\ requests[j].response.status_code = HttpOk
               /\ page_images[requests[j].url.page] = requests[j].response.content
    /\ Phase = "Done" => (returned # None /\ raised = "none" /\ failed_at = "none")
    /\ Phase = "Failed" => (returned = None /\ raised # "none" /\ failed_at # "none")
    /\ Terminal <=> outcome # Pending

C11_PhaseStep ==
    /\ \/ Phase' = Phase
       \/ PhaseRank(Phase') = PhaseRank(Phase) + 1
       \/ Phase' = "Failed"
    /\ Terminal => UNCHANGED <<pc, requests, page_images, page_index, pdf_writer,
                               assemble_calls, returned, raised, outcome>>

\* C11: a run goes through Idle, FetchingMetadata, FetchingPages, Assembling
\* in that order, skipping none, and ends in Done or in Failed, never both;
\* pages are fetched only once a non-empty page list is extracted; assembly
\* starts only when every one of the N page images was fetched with success;
\* after Done or Failed no request, conversion or assembly step happens.
C11_PhasesInOrder == []C11_PhaseInvariant /\ [][C11_PhaseStep]_vars

C11_Witness ==
    /\ entry = "progress"
    /\ pc = "done"
    /\ Len(page_images) = 2
    /\ Len(requests) = 3

\* A response with which the request did not succeed: requests.get raised
\* (connection, DNS, timeout), or the status is outside 200..299
RequestFailed(response) == "exc" \in DOMAIN response \/ Non2xx(response)

\* C12: whenever the transport failed on a request, or the remote answered
\* it with a non-2xx status, execute_request raised NetworkError and nothing
\* else: the run has failed at that request with NetworkError, and the
\* response was handed to nobody (no page list was extracted from it, no
\* image buffer was taken from it).
C12_FailedRequestRaisesNetworkError ==
    \A j \in 1..Len(requests) :
        RequestFailed(requests[j].response) =>
            /\ j = Len(requests)
            /\ pc = "failed"
            /\ raised = "NetworkError"
            /\ returned = None
            /\ IF requests[j].url.endpoint = "meta"
               THEN failed_at = "metadata" /\ page_info = <<>>
               ELSE failed_at = "pages" /\ Len(page_images) = requests[j].url.page - 1

C12_Witness ==
    /\ pc = "failed"
    /\ Len(requests) = 1
    /\ "exc" \in DOMAIN requests[1].response
    /\ raised = "NetworkError"

\* C13: a converter built with OCR disabled renders every page with PIL and
\* never calls pytesseract; given decodable images (and metadata with which
\* nothing else fails) it renders one page per image and the document is
\* returned, whether or not Tesseract is installed.
C13_NoOcrWhenDisabled ==
    ~image_converter.enable_ocr =>
        /\ \A i \in 1..Len(pdf_writer) :
            /\ pdf_writer[i].page.backend = "PIL"
            /\ ~pdf_writer[i].page.text_layer
        /\ pc = "assembling" => Len(pdf_writer) = page_index
        /\ ( /\ Terminal
             /\ Len(page_images) >= 1
             /\ Len(page_info) >= 1
             /\ WellFormedInputs ) =>
               /\ pc = "done"
               /\ Len(returned.pages) = Len(page_images)

C13_Witness ==
    /\ entry = "assembler"
    /\ ~image_converter.enable_ocr
    /\ ~tesseract_installed
    /\ pc = "done"
    /\ Len(returned.pages) = 2

\* C14: in a completed run started by a /generate-pdf request, every
\* page-image URL carries the output format and the resolution of the request, and a page is
\* rendered by the OCR backend exactly when the request's enable_ocr is true.
C14_RequestParametersGovernRun ==
    (entry = "api" /\ pc = "done") =>
        /\ \A j \in ImageRequests :
            /\ requests[j].url.format = args.output_format
            /\ requests[j].url.size = args.resolution
        /\ \A i \in 1..Len(pdf_writer) :
            (pdf_writer[i].page.backend = "pytesseract") <=> args.enable_ocr

\* C15: once cancellation was signalled before the fetch of page k started,
\* no request for page k or a later page is issued and the run returns no
\* document.
C15_CancellationStopsFetching ==
    cancelled_before >= 1 =>
        /\ \A j \in ImageRequests : requests[j].url.page < cancelled_before
        /\ returned = None

\* ISO-8601 with exactly three fractional digits and Z: YYYY-MM-DDTHH:MM:SS.mmmZ
IsoMillisecondsZ(t) ==
    <<"2", "0", "2", "4", "-", "0", "1", "-", "0", "1", "T">>
    \o Digits(t.hour, 2) \o <<":">> \o Digits(t.minute, 2) \o <<":">>
    \o Digits(t.second, 2) \o <<".">> \o Digits(t.microsecond \div 1000, 3)
    \o <<"Z">>

\* C16: at every clock value, get_current_utc_timestamp returns the date,
\* hour, minute and second of that instant, a point, exactly three digits (its
\* milliseconds) and Z.
C16_TimestampHasMilliseconds ==
    (entry = "timestamp_generator" /\ pc = "done") =>
        processing_timestamp = IsoMillisecondsZ(args.utcnow)

\* C17: the port of the configuration made by APIConfig.from_env is the value
\* of PORT when PORT is set, whether or not API_PORT is set too, and the value
\* of API_PORT when only API_PORT is set.
C17_PortTakesPriority ==
    (entry = "from_env" /\ pc = "done") =>
        /\ "PORT" \in DOMAIN args => returned.config.port = ParseInt(args["PORT"])
        /\ ("PORT" \notin DOMAIN args /\ "API_PORT" \in DOMAIN args) =>
               returned.config.port = ParseInt(args["API_PORT"])

\* A request the run went on from: requests.get returned and the status is 200
Served(response) ==
    /\ "status_code" \in DOMAIN response
    /\ response.status_code = HttpOk

\* C18: the requests of a run are one metadata request followed by the image
\* requests of pages 1, 2, ..., k in this order, each page once; every
\* request but the last was served; k is at most the number N of pages, it is
\* N when the run went on to assembly, and a run whose last request failed
\* has failed and requests nothing more.
C18_RequestSequence ==
    Len(requests) >= 1 =>
        /\ requests[1].url.endpoint = "meta"
        /\ \A j \in 2..Len(requests) :
            /\ requests[j].url.endpoint = "to-image"
            /\ requests[j].url.page = j - 1
        /\ \A j \in 1..(Len(requests) - 1) : Served(requests[j].response)
        /\ Len(requests) <= 1 + Len(page_info)
        /\ Phase \in {"Assembling", "Done"} => Len(requests) = 1 + Len(page_info)
        /\ ~Served(requests[Len(requests)].response) => pc = "failed"

C18_Witness ==
    /\ pc = "failed"
    /\ Len(page_info) = 2
    /\ Len(requests) = 2
    /\ "exc" \in DOMAIN requests[2].response

\* C19: a failure inside process_document leaves it as ProcessingError,
\* NetworkError or DocumentValidationError and as nothing else: a failed
\* request as NetworkError, an undecodable or empty payload as
\* DocumentValidationError, a failed conversion as ProcessingError, and an
\* exception of any other class (a payload that is not an object, a link
\* without url, a reference viewport with a zero dimension) as ProcessingError.
C19_OnlyProcessingErrorKinds ==
    ( /\ entry \in {"runner", "facade", "api"}
      /\ failed_at \notin {"none", "spec", "request"} ) =>
        /\ raised \in ProcessingErrorKinds
        /\ failed_at \in {"metadata", "pages"} => raised = "NetworkError"
        /\ failed_at = "extract" =>
               raised = IF requests[1].response.content.json = "array"
                        THEN "ProcessingError"
                        ELSE "DocumentValidationError"
        /\ failed_at = "assemble" => raised = "ProcessingError"

C19_Witness ==
    /\ entry = "facade"
    /\ pc = "failed"
    /\ failed_at = "assemble"
    /\ raised = "ProcessingError"
    /\ tesseract_installed
    /\ page_images[1].decodable
    /\ ReferenceViewport(page_info).width = 0

C20_WriterInvariant ==
    /\ Len(pdf_writer) <= Len(page_images)
    /\ pc = "done" => Len(pdf_writer) = Len(page_images)
    /\ \A i \in 1..Len(pdf_writer) :
        /\ pdf_writer[i].page.image = page_images[i]
        /\ \A k \in 1..Len(pdf_writer[i].annotations) :
            pdf_writer[i].annotations[k].pages_in_writer = i

C20_WriterStep ==
    /\ Len(pdf_writer') \in {Len(pdf_writer), Len(pdf_writer) + 1}
    /\ \A i \in 1..Len(pdf_writer) : pdf_writer'[i] = pdf_writer[i]

\* C20: assemble_document appends the pages in the order of image_buffers,
\* one per buffer, at the end of the writer; an annotation of page i (0-based)
\* is added when the writer holds exactly i + 1 pages, that is after page i
\* was appended and before page i + 1 is, so its page index is below the
\* number of pages in the writer; a page already followed by another gets no
\* further annotation.
C20_AnnotationsFollowTheirPage == []C20_WriterInvariant /\ [][C20_WriterStep]_vars

C20_Witness ==
    /\ entry = "assembler"
    /\ pc = "assembling"
    /\ Len(page_images) = 2
    /\ page_index = 1
    /\ Len(pdf_writer) = 1
    /\ Len(pdf_writer[1].annotations) = 1

\* C21: from the call of assemble_document on, whether it is running, has
\* returned or has failed, page_metadata is the value it was called with,
\* every descriptor and every link with its url; and once the call is over,
\* assembling the same buffers and metadata again gives the same pages and
\* annotations, or the same error.
C21_PageMetadataUnchanged ==
    entry = "assembler" =>
        /\ page_info = args.page_metadata
        /\ Terminal =>
               LET again == AssembleDocument(page_images, page_info,
                                             image_converter.enable_ocr,
                                             tesseract_installed)
               IN  /\ again.writer = pdf_writer
                   /\ again.page_metadata = args.page_metadata
                   /\ IsRaise(again) <=> pc = "failed"
                   /\ IsRaise(again) => again.raised = raised

C21_Witness ==
    /\ entry = "assembler"
    /\ pc = "done"
    /\ args.page_metadata = <<PageA, PageB>>
    /\ Len(pdf_writer) = 2
    /\ Len(pdf_writer[2].annotations) = 2
    /\ page_info = args.page_metadata

\* The responses run r received, in the order of its requests
RunResponses(r) ==
    [j \in 1..Len(threads[r].requests) |-> threads[r].requests[j].response]

\* The locals of run r are what run r itself generated and received
RunLocalsPrivate(r) ==
    LET thread == threads[r]
        frame == frames[Frame(r)]
    IN  /\ thread.pc # "timestamp" => frame.processing_timestamp = thread.stamp
        /\ \A j \in 1..Len(thread.requests) :
               /\ thread.requests[j].url.cache = thread.stamp
               /\ thread.requests[j].url.token = thread.specification.access_token
        /\ thread.pc \in {"pages", "assemble", "done"} =>
               /\ frame.page_info = thread.requests[1].response.content.data.pages
               /\ frame.page_images =
                      [k \in 1..(Len(thread.requests) - 1) |->
                          thread.requests[k + 1].response.content]

\* C22: with two runs on one orchestrator, under every interleaving of their
\* steps, the timestamp, the page descriptors and the image buffers a run
\* works with are the ones it generated and received itself, every request
\* it issues carries its own token and timestamp, and the way it ends (the
\* document returned or the error raised) is what process_document gives on
\* the responses to its own requests alone.
C22_RunsAreIsolated ==
    threads # <<>> =>
        \A r \in Runs :
            /\ RunLocalsPrivate(r)
            /\ threads[r].pc \in {"done", "failed"} =>
                   LET result == ProcessDocument(RunResponses(r), image_converter.enable_ocr,
                                                 tesseract_installed)
                   IN  threads[r].outcome =
                           IF IsRaise(result) THEN [kind |-> "raised", error |-> result.raised]
                           ELSE [value |-> result.value, kind |-> "returned"]

C22_Witness ==
    /\ threads # <<>>
    /\ threads[1].pc = "done"
    /\ threads[2].pc = "done"
    /\ threads[1].stamp # threads[2].stamp
    /\ Len(threads[1].outcome.value.pages) = 1
    /\ Len(threads[2].outcome.value.pages) = 2
    /\ threads[2].requests[2].url.cache = threads[2].stamp

FracLeq(a, b) == a.n * b.d <= b.n * a.d

\* The reports made before a step: all but (1.0, Done) and (1.0, Failed)
StepReports == SelectSeq(progress, LAMBDA report : report.message \notin {"Done", "Failed"})

Messages == {progress[i].message : i \in 1..Len(progress)}

\* C23: in a run of generate_with_progress that got as far as its first
\* report, the fractions reported are within [0, 1] and never decrease; a
\* report precedes the metadata fetch, each page fetch and the assembly; once
\* the run is over its last report is (1.0, Done) and there is no Failed
\* report if it succeeded, (1.0, Failed) and no Done report if it failed;
\* and the run is not ended by the sink: an error that leaves it was raised
\* by one of its fetch or assemble steps.
C23_ProgressIsAdvisory ==
    (entry = "progress" /\ failed_at # "spec") =>
        /\ \A i \in 1..Len(progress) :
               /\ FracLeq(Frac(0, 1), progress[i].fraction)
               /\ FracLeq(progress[i].fraction, Frac(1, 1))
        /\ \A i, j \in 1..Len(progress) :
               i < j => FracLeq(progress[i].fraction, progress[j].fraction)
        /\ Len(requests) + assemble_calls <= Len(StepReports)
        /\ \A j \in 1..Len(requests) :
               progress[j].message =
                   IF j = 1 THEN "Fetching metadata" ELSE "Fetching page"
        /\ assemble_calls > 0 => "Assembling PDF" \in Messages
        /\ pc = "done" =>
               /\ progress[Len(progress)] = Report(Frac(1, 1), "Done")
               /\ "Failed" \notin Messages
        /\ pc = "failed" =>
               /\ progress[Len(progress)] = Report(Frac(1, 1), "Failed")
               /\ "Done" \notin Messages
        /\ Terminal => (failed_at # "callback" /\ raised # "CallbackError")

\* C24: a POST /generate-pdf that is over answers 502 when a request to the
\* remote service failed (transport failure or non-2xx), 400 when the request
\* was rejected by the checks (empty token, unsupported format, resolution
\* out of range) or the metadata had no pages, 500 when the assembly failed,
\* and 200 with the PDF only when the run returned a document.
C24_StatusCodes ==
    (entry = "api" /\ Terminal) =>
        /\ failed_at \in {"metadata", "pages"} => outcome.status_code = 502
        /\ failed_at = "request" => outcome.status_code = 400
        /\ ( /\ failed_at = "extract"
             /\ requests[1].response.content.json = "object"
             /\ Len(PayloadPages) = 0 ) => outcome.status_code = 400
        /\ failed_at = "assemble" => outcome.status_code = 500
        /\ outcome.status_code = 200 =>
               /\ pc = "done"
               /\ returned # None
               /\ outcome.value = returned

\* The threads of a key that have not finished
ActiveThreads(key) ==
    {i \in 1..Len(task_threads) :
        task_threads[i].key = key /\ task_threads[i].state # "finished"}

C25_TaskInvariant ==
    /\ \A key \in TaskKeys : Cardinality(ActiveThreads(key)) <= 1
    /\ \A i \in 1..Len(task_threads) :
           /\ task_threads[i].key \in DOMAIN tasks
           /\ task_threads[i].state # "finished" =>
                  /\ tasks[task_threads[i].key].status = "running"
                  /\ tasks[task_threads[i].key].start = i
    /\ \A key \in DOMAIN tasks :
           /\ tasks[key].status \in {"running", "done", "error"}
           /\ tasks[key].status = "done" => "bytes" \in DOMAIN tasks[key]

C25_TaskStep ==
    /\ \A key \in DOMAIN tasks :
           /\ key \in DOMAIN tasks'
           /\ tasks'[key] # tasks[key] =>
                  \/ /\ tasks'[key].start = tasks[key].start
                     /\ tasks[key].status = "running"
                     /\ tasks'[key].status \in {"done", "error"}
                     /\ task_threads[tasks[key].start].state = "running"
                     /\ task_threads'[tasks[key].start].state = "finished"
                  \/ /\ tasks[key].status = "error"
                     /\ tasks'[key].status = "running"
                     /\ tasks'[key].start = Len(task_threads')
                     /\ Len(task_threads') = Len(task_threads) + 1
    /\ Len(task_threads') # Len(task_threads) =>
           LET key == task_threads'[Len(task_threads')].key IN
           /\ Len(task_threads') = Len(task_threads) + 1
           /\ key \notin DOMAIN tasks \/ tasks[key].status = "error"
           /\ tasks'[key].status = "running"
           /\ task_threads'[Len(task_threads')].state = "created"

\* C25: in the background-task UI every key has at most one thread that has
\* not finished; the entry of a thread's key exists from the creation of the
\* thread on, is in status running and is the entry of that launch for as
\* long as the thread has not finished; a done entry carries bytes; an entry
\* changes only when its own running thread writes done or error into it, or
\* when an entry in status error is replaced by a new launch; and a thread is
\* created only for a key that is absent or in status error, so a submission
\* for a key in status running or done creates none.
C25_OneThreadPerKey == []C25_TaskInvariant /\ [][C25_TaskStep]_vars

C25_Witness ==
    /\ DOMAIN tasks = TaskKeys
    /\ tasks["k1"].status = "done"
    /\ tasks["k1"].start = 3
    /\ tasks["k2"].status = "running"
    /\ task_threads[1].key = "k1"
    /\ Len(task_threads) = 3
    /\ submissions = 4

====
